---- MODULE Spec2Model ----
(***************************************************************************)
(* Model of slithergen's hexagonal map core: the coordinate enumerator     *)
(* (src/model.rs, Map::iter_coords), the cell codec (src/io.rs, pack_cell  *)
(* and unpack_cell) and the file codec (src/io.rs, save_map and load_map). *)
(*                                                                         *)
(* Integers keep the width the code gives them: Map.radius and file bytes  *)
(* are u8, coordinates and the enumerator's bounds are i8.  An i8 overflow *)
(* panics in a build with overflow checks ("debug") and wraps in a build   *)
(* without them ("release"); the build is part of the state.               *)
(***************************************************************************)
EXTENDS Integers, Sequences, FiniteSets, TLC

VARIABLES
    pc,         \* position of the modelled run
    build,      \* "debug" (overflow checks on) or "release" (wrapping)
    cell,       \* codec: the Cell handed to pack_cell
    packed,     \* codec: the byte pack_cell returned
    unpacked,   \* codec: the Cell unpack_cell returned
    radius,     \* Map.radius (u8)
    cells,      \* Map.cells: a function from Coord to Cell
    legacy,     \* save_map's format mode
    file,       \* the destination file: a sequence of bytes
    iter,       \* enumerator: what iter_coords yielded
    saved,      \* outcome of save_map
    loaded,     \* outcome of load_map
    resaved,    \* outcome and file of save_map on the map load_map returned
    reloaded,   \* outcome of load_map on that file
    args,       \* the parsed command line (Args)
    config      \* what Args::normalize returned (ResolvedConfig)

vars == <<pc, build, cell, packed, unpacked, radius, cells, legacy, file,
          iter, saved, loaded, resaved, reloaded, args, config>>

----------------------------------------------------------------------------
(* Machine integers *)

U8 == 0..255

Builds == {"debug", "release"}

Max(a, b) == IF a >= b THEN a ELSE b

Min(a, b) == IF a <= b THEN a ELSE b

\* x as i8: the two's complement value of the low 8 bits
Wrap8(x) == ((x + 128) % 256) - 128

\* an i8 operation whose exact result x does not fit
Overflows8(x) == x < -128 \/ x > 127

RECURSIVE BitAnd(_, _, _)
\* a & b over the low n bits
BitAnd(a, b, n) ==
    IF n = 0 THEN 0
    ELSE (IF a % 2 = 1 /\ b % 2 = 1 THEN 1 ELSE 0)
         + 2 * BitAnd(a \div 2, b \div 2, n - 1)

RECURSIVE BitOr(_, _, _)
\* a | b over the low n bits
BitOr(a, b, n) ==
    IF n = 0 THEN 0
    ELSE (IF a % 2 = 1 \/ b % 2 = 1 THEN 1 ELSE 0)
         + 2 * BitOr(a \div 2, b \div 2, n - 1)

\* (a << k) as u8
Shl8(a, k) == (a * (2 ^ k)) % 256

\* a >> k
Shr8(a, k) == a \div (2 ^ k)

----------------------------------------------------------------------------
(* model.rs: Coord, Region, Cell *)

Regions == {"Inside", "Outside"}

Coord(q, r) == [q |-> q, r |-> r]

NewCell(region, count, visible) ==
    [region |-> region, full_neighbor_count |-> count, clue_visible |-> visible]

\* every value of the type Cell
AllCells ==
    {NewCell(g, n, v) : g \in Regions, n \in U8, v \in BOOLEAN}

----------------------------------------------------------------------------
(* io.rs: the cell codec *)

pack_cell_no_mask(c) ==
    LET b0 == IF c.region = "Inside" THEN BitOr(0, 1, 8) ELSE 0
        b1 == BitOr(b0, Shl8(c.full_neighbor_count, 1), 8)
    IN  IF c.clue_visible THEN BitOr(b1, 16, 8) ELSE b1

pack_cell_visible_bit5(c) ==
    LET b0 == IF c.region = "Inside" THEN BitOr(0, 1, 8) ELSE 0
        b1 == BitOr(b0, Shl8(BitAnd(c.full_neighbor_count, 7, 8), 1), 8)
    IN  IF c.clue_visible THEN BitOr(b1, 32, 8) ELSE b1

pack_cell(c) ==
    LET b0 == IF c.region = "Inside" THEN BitOr(0, 1, 8) ELSE 0
        b1 == BitOr(b0, Shl8(BitAnd(c.full_neighbor_count, 7, 8), 1), 8)
    IN  IF c.clue_visible THEN BitOr(b1, 16, 8) ELSE b1

unpack_cell(b) ==
    NewCell(IF BitAnd(b, 1, 8) # 0 THEN "Inside" ELSE "Outside",
            BitAnd(Shr8(b, 1), 7, 8),
            BitAnd(b, 16, 8) # 0)

----------------------------------------------------------------------------
(* model.rs: Map::iter_coords *)

\* one evaluation of the flat_map closure for row q overflows an i8
RowOverflows(r, q) ==
    \/ r = -128                     \* -r
    \/ q = -128                     \* -q
    \/ Overflows8(Wrap8(-q) - r)    \* -q - r
    \/ Overflows8(Wrap8(-q) + r)    \* -q + r

\* a row whose upper bound is one too high
RowOneMore(r, q) ==
    LET r_min == Max(Wrap8(-r), Wrap8(Wrap8(-q) - r))
        r_max == Min(r, Wrap8(Wrap8(-q) + r)) + 1
    IN  IF r_min > r_max THEN << >>
        ELSE [k \in 1..(r_max - r_min + 1) |-> Coord(q, r_min + k - 1)]

\* the coordinates of row q, with wrapping arithmetic
Row(r, q) ==
    LET r_min == Max(Wrap8(-r), Wrap8(Wrap8(-q) - r))
        r_max == Min(r, Wrap8(Wrap8(-q) + r))
    IN  IF r_min > r_max THEN << >>
        ELSE [k \in 1..(r_max - r_min + 1) |-> Coord(q, r_min + k - 1)]

RECURSIVE FlatMap(_, _, _, _)
\* rows q..hi in ascending order of q, concatenated; a debug build stops with
\* a panic at the first row whose bounds overflow, having yielded the rows
\* before it (the range is split in halves only to keep the evaluation flat)
FlatMap(r, q, hi, b) ==
    IF q > hi THEN [panic |-> FALSE, seq |-> << >>]
    ELSE IF q = hi THEN
        IF b = "debug" /\ RowOverflows(r, q) THEN [panic |-> TRUE, seq |-> << >>]
        ELSE [panic |-> FALSE, seq |-> Row(r, q)]
    ELSE LET mid == (q + hi) \div 2
             left == FlatMap(r, q, mid, b)
         IN  IF left.panic THEN left
             ELSE LET right == FlatMap(r, mid + 1, hi, b)
                  IN  [panic |-> right.panic, seq |-> left.seq \o right.seq]

\* what iter_coords yields for Map.radius = R: the sequence, and whether the
\* iteration ended in an overflow panic
iter_coords(R, b) ==
    LET r == Wrap8(R)
    IN  IF b = "debug" /\ r = -128 THEN [panic |-> TRUE, seq |-> << >>]
        ELSE FlatMap(r, Wrap8(-r), r, b)

\* 3 * radius * (radius + 1) + 1, computed in u32 (no overflow for a u8 radius)
HexCount(R) == 3 * R * (R + 1) + 1

----------------------------------------------------------------------------
(* io.rs: save_map *)

\* the bytes written before the cell data: the flags byte unless legacy,
\* then the radius byte
SaveHeader(R, leg) == IF leg THEN <<R>> ELSE <<0, R>>

RECURSIVE FirstMissing(_, _, _, _)
\* the least i in lo..hi with seq[i] not among keys, or hi + 1 when every
\* one is: the iteration of the for loop at which map.cells.get fails
FirstMissing(seq, keys, lo, hi) ==
    IF lo > hi THEN lo
    ELSE IF lo = hi THEN (IF seq[lo] \in keys THEN hi + 1 ELSE lo)
    ELSE LET mid == (lo + hi) \div 2
         IN  IF \E i \in lo..mid : seq[i] \notin keys
             THEN FirstMissing(seq, keys, lo, mid)
             ELSE FirstMissing(seq, keys, mid + 1, hi)

\* save_map(map, path, legacy): the result and the bytes that reached the file.
\* Every byte is written as soon as it is produced, so a failure leaves the
\* header and the bytes of the coordinates before it.
save_map(R, cs, leg, b) ==
    LET it == iter_coords(R, b)
        keys == DOMAIN cs
        stop == FirstMissing(it.seq, keys, 1, Len(it.seq))
        payload == [i \in 1..(stop - 1) |-> pack_cell(cs[it.seq[i]])]
    IN  [result |-> IF stop <= Len(it.seq) THEN "InvalidData"
                    ELSE IF it.panic THEN "panic"
                    ELSE "Ok",
         file |-> SaveHeader(R, leg) \o payload]

----------------------------------------------------------------------------
(* io.rs: load_map *)

ExpectedSizeLegacyAsModern(b0) == 2 + HexCount(b0)

ExpectedSizeLegacyNoRadiusByte(b0) == HexCount(b0)

\* expected_size_legacy for the candidate radius in byte 0
ExpectedSizeLegacy(b0) == 1 + HexCount(b0)

\* the length test that classifies a buffer as legacy
DetectedLegacy(buffer) == Len(buffer) = ExpectedSizeLegacy(buffer[1])

ModernRadiusFromFlag(buffer) == buffer[1]

\* the radius of a buffer classified as modern: its second byte
ModernRadius(buffer) == buffer[2]

SizeMismatchOnlyLonger(len, start, R) == len - start > HexCount(R)

\* the size check: bytes after the header against the cell count of the radius
SizeMismatch(len, start, R) == len - start # HexCount(R)

RECURSIVE InsertAll(_, _, _, _, _)
\* map.cells after inserting unpack_cell(buffer[start + i]) at seq[i] for
\* i = lo..hi in order (a later insert of the same key replaces the earlier)
InsertAll(seq, buffer, start, lo, hi) ==
    IF lo > hi THEN << >>
    ELSE IF lo = hi THEN seq[lo] :> unpack_cell(buffer[start + lo])
    ELSE LET mid == (lo + hi) \div 2
         IN  InsertAll(seq, buffer, start, mid + 1, hi)
             @@ InsertAll(seq, buffer, start, lo, mid)

Failed(kind, msg) ==
    [kind |-> kind, msg |-> msg, layout |-> "none", radius |-> 0, cells |-> << >>]

\* load_map(path) on a file holding buffer
load_map(buffer, b) ==
    IF Len(buffer) = 0 THEN Failed("UnexpectedEof", "File empty")
    ELSE IF ~DetectedLegacy(buffer) /\ Len(buffer) < 2
    THEN Failed("UnexpectedEof", "File too short")
    ELSE
    LET leg == DetectedLegacy(buffer)
        R == IF leg THEN buffer[1] ELSE ModernRadius(buffer)
        start == IF leg THEN 1 ELSE 2
    IN  IF SizeMismatch(Len(buffer), start, R)
        THEN Failed("InvalidData", "File size does not match radius")
        ELSE
        LET it == iter_coords(R, b)
            avail == Len(buffer) - start
            n == Min(Len(it.seq), avail)
        IN  IF it.panic THEN Failed("panic", "arithmetic overflow")
            ELSE IF Len(it.seq) > avail
            THEN Failed("UnexpectedEof", "Missing cell data")
            ELSE [kind |-> "Ok", msg |-> "",
                  layout |-> IF leg THEN "legacy" ELSE "modern",
                  radius |-> R,
                  cells |-> InsertAll(it.seq, buffer, start, 1, n)]

----------------------------------------------------------------------------
(* The cell codec run: a Cell is packed, the byte is unpacked *)

NoCell == [region |-> "none"]

NotLoaded == [kind |-> "none", msg |-> "", layout |-> "none", radius |-> 0,
              cells |-> << >>]

\* save_map has not been called on a loaded map
NotSaved == [result |-> "none", file |-> << >>]

\* no command line has been parsed
NoArgs == [parsed |-> FALSE]

\* Args::normalize has not been called
NoConfig == [resolved |-> FALSE]

InitCodec ==
    /\ pc = "codec"
    /\ build \in Builds
    /\ cell \in AllCells
    /\ packed = -1
    /\ unpacked = NoCell
    /\ radius = 0
    /\ cells = << >>
    /\ legacy = FALSE
    /\ file = << >>
    /\ iter = [panic |-> FALSE, seq |-> << >>]
    /\ saved = "none"
    /\ loaded = NotLoaded
    /\ resaved = NotSaved
    /\ reloaded = NotLoaded
    /\ args = NoArgs
    /\ config = NoConfig

Pack ==
    /\ pc = "codec"
    /\ packed' = pack_cell(cell)
    /\ pc' = "packed"
    /\ UNCHANGED <<build, cell, unpacked, radius, cells, legacy, file, iter,
                   saved, loaded,
                   resaved, reloaded, args, config>>

Unpack ==
    /\ pc = "packed"
    /\ unpacked' = unpack_cell(packed)
    /\ pc' = "unpacked"
    /\ UNCHANGED <<build, cell, packed, radius, cells, legacy, file, iter,
                   saved, loaded,
                   resaved, reloaded, args, config>>

NextCodec == Pack \/ Unpack

SpecCodec == InitCodec /\ [][NextCodec]_vars

----------------------------------------------------------------------------
(* The enumerator run: Map::new(R).iter_coords() is collected *)

InitEnum ==
    /\ pc = "new"
    /\ build \in Builds
    /\ cell = NoCell
    /\ packed = -1
    /\ unpacked = NoCell
    /\ radius \in U8
    /\ cells = << >>
    /\ legacy = FALSE
    /\ file = << >>
    /\ iter = [panic |-> FALSE, seq |-> << >>]
    /\ saved = "none"
    /\ loaded = NotLoaded
    /\ resaved = NotSaved
    /\ reloaded = NotLoaded
    /\ args = NoArgs
    /\ config = NoConfig

Enumerate ==
    /\ pc = "new"
    /\ iter' = iter_coords(radius, build)
    /\ pc' = "enumerated"
    /\ UNCHANGED <<build, cell, packed, unpacked, radius, cells, legacy, file,
                   saved, loaded,
                   resaved, reloaded, args, config>>

NextEnum == Enumerate

SpecEnum == InitEnum /\ [][NextEnum]_vars

----------------------------------------------------------------------------
(* Inputs of the file codec runs *)

\* largest radius whose maps are enumerated with every hole and odd cell
MaxRadius == 2

\* radii at and beyond which the enumerator's i8 arithmetic overflows
OverflowRadii == {64, 128, 255}

RadiusInputs == (0..MaxRadius) \cup OverflowRadii

\* the cells maps are filled with: the tests' cell, the generator's cell, the
\* all-zero cell and one with the largest count that fits three bits
CellInputs ==
    { NewCell("Inside", 1, TRUE), NewCell("Inside", 3, TRUE),
      NewCell("Outside", 0, FALSE), NewCell("Outside", 7, FALSE) }

\* the coordinates the documentation of iter_coords names for radius R
DocCoords(R) ==
    {c \in {Coord(q, r) : q \in -R..R, r \in -R..R} :
        Max(-R, -c.q - R) <= c.r /\ c.r <= Min(R, -c.q + R)}

NoCoord == Coord(-1000, -1000)

\* where a map may lack a cell: anywhere for a small radius, at the centre
\* for a large one
HoleCoords(R) == IF R <= MaxRadius THEN DocCoords(R) ELSE {Coord(0, 0)}

\* where a map may hold a cell unlike the others
OddCoords(R) == IF R <= MaxRadius THEN DocCoords(R) ELSE {}

\* the cells a map is filled with: for a large radius only the cell that
\* main.rs and DummyGenerator fill maps with
FillCells(R) == IF R <= MaxRadius THEN CellInputs ELSE {NewCell("Inside", 3, TRUE)}

\* Map.cells of the input maps of radius R: the empty map of Map::new and,
\* when the coordinates fit the type Coord, the maps filled with one cell
\* except for at most one missing coordinate and at most one other cell
InputCells(R) ==
    {<< >>} \cup
    (IF R > 127 THEN {}
     ELSE { [c \in DocCoords(R) \ {hole} |-> IF c = odd THEN oc ELSE base] :
              base \in FillCells(R), oc \in FillCells(R),
              hole \in HoleCoords(R) \cup {NoCoord},
              odd \in OddCoords(R) \cup {NoCoord} })

\* the bytes the payload of an input file is filled with
PayloadInputs == {0, 23, 255}

\* the increments from one payload byte of an input file to the next
PayloadSteps == {0, 37}

\* n payload bytes starting at p, each the one before plus step
Payload(n, p, step) == [i \in 1..n |-> (p + step * (i - 1)) % 256]

\* longest file made of arbitrary bytes
MaxShortLen == 3

\* the bytes such a file is made of
ShortBytes == {0, 1, 23, 255}

RECURSIVE ShortFiles(_)
\* every byte string over ShortBytes of length at most n
ShortFiles(n) ==
    IF n = 0 THEN {<< >>}
    ELSE LET shorter == ShortFiles(n - 1)
         IN  shorter \cup {Append(F, x) : F \in shorter, x \in ShortBytes}

\* radii of the complete files whose enumeration overflows: 64 is the first
\* whose row bounds leave the i8 range, 129 the first that is negative as i8
LoadOverflowRadii == {64, 129}

\* the files handed to load_map: any flag byte and a small radius followed by
\* a payload of the radius's cell count or one byte less; the same without
\* the flag byte; flag 0 and any radius followed by a payload one byte short;
\* files of either layout with the full payload of a radius at which the
\* enumerator overflows; the files of one byte; short files of arbitrary bytes
InputFiles ==
    { <<f, R>> \o Payload(HexCount(R) - short, p, step) :
        f \in U8, R \in 0..MaxRadius, short \in {0, 1}, p \in PayloadInputs,
        step \in PayloadSteps }
    \cup { <<R>> \o Payload(HexCount(R) - short, p, step) :
        R \in 0..MaxRadius, short \in {0, 1}, p \in PayloadInputs,
        step \in PayloadSteps }
    \cup { <<0, R>> \o Payload(HexCount(R) - 1, 0, 0) : R \in U8 }
    \cup { <<0, R>> \o Payload(HexCount(R), p, 0) :
        R \in LoadOverflowRadii, p \in PayloadInputs }
    \cup { <<R>> \o Payload(HexCount(R), p, 0) :
        R \in LoadOverflowRadii, p \in PayloadInputs }
    \cup { <<x>> : x \in U8 }
    \cup ShortFiles(MaxShortLen)

----------------------------------------------------------------------------
(* The file codec runs *)

\* a map is handed to save_map, and the file it leaves is handed to load_map
InitFile ==
    /\ pc = "map"
    /\ build \in Builds
    /\ cell = NoCell
    /\ packed = -1
    /\ unpacked = NoCell
    /\ radius \in RadiusInputs
    /\ cells \in InputCells(radius)
    /\ legacy \in BOOLEAN
    /\ file = << >>
    /\ iter = [panic |-> FALSE, seq |-> << >>]
    /\ saved = "none"
    /\ loaded = NotLoaded
    /\ resaved = NotSaved
    /\ reloaded = NotLoaded
    /\ args = NoArgs
    /\ config = NoConfig

\* a file that save_map did not write is handed to load_map
InitLoad ==
    /\ pc = "stored"
    /\ build \in Builds
    /\ cell = NoCell
    /\ packed = -1
    /\ unpacked = NoCell
    /\ radius = 0
    /\ cells = << >>
    /\ legacy = FALSE
    /\ file \in InputFiles
    /\ iter = [panic |-> FALSE, seq |-> << >>]
    /\ saved = "none"
    /\ loaded = NotLoaded
    /\ resaved = NotSaved
    /\ reloaded = NotLoaded
    /\ args = NoArgs
    /\ config = NoConfig

SaveMap ==
    /\ pc = "map"
    /\ LET s == save_map(radius, cells, legacy, build)
       IN  /\ saved' = s.result
           /\ file' = s.file
    /\ pc' = "stored"
    /\ UNCHANGED <<build, cell, packed, unpacked, radius, cells, legacy, iter,
                   loaded,
                   resaved, reloaded, args, config>>

LoadMap ==
    /\ pc = "stored"
    /\ loaded' = load_map(file, build)
    /\ pc' = "loaded"
    /\ UNCHANGED <<build, cell, packed, unpacked, radius, cells, legacy, file,
                   iter, saved,
                   resaved, reloaded, args, config>>

NextFile == SaveMap \/ LoadMap

SpecFile == InitFile /\ [][NextFile]_vars

\* the map load_map returned is handed to save_map, in the layout load_map
\* detected
Resave ==
    /\ pc = "loaded"
    /\ loaded.kind = "Ok"
    /\ resaved' = save_map(loaded.radius, loaded.cells,
                           loaded.layout = "legacy", build)
    /\ pc' = "resaved"
    /\ UNCHANGED <<build, cell, packed, unpacked, radius, cells, legacy, file,
                   iter, saved, loaded, reloaded, args, config>>

\* the file that save_map left is handed to load_map again
Reload ==
    /\ pc = "resaved"
    /\ reloaded' = load_map(resaved.file, build)
    /\ pc' = "reloaded"
    /\ UNCHANGED <<build, cell, packed, unpacked, radius, cells, legacy, file,
                   iter, saved, loaded, resaved, args, config>>

NextLoad == LoadMap \/ Resave \/ Reload

SpecLoad == InitLoad /\ [][NextLoad]_vars

----------------------------------------------------------------------------
(* Properties of the cell codec, checked under SpecCodec *)

\* bit i of byte b
Bit(b, i) == (b \div (2 ^ i)) % 2

\* C9 (cell codec bijection): for each of the 32 cells whose
\* full_neighbor_count is in 0..7, unpacking the packed byte gives the cell back.
C9_CodecBijection ==
    (pc = "unpacked" /\ cell.full_neighbor_count <= 7) => unpacked = cell

C9_Witness ==
    /\ pc = "unpacked"
    /\ cell = NewCell("Inside", 7, TRUE)
    /\ packed = 31
    /\ unpacked = cell

\* C10 (cell byte layout): for every cell, also one whose count is 8..255, the
\* packed byte has bit 0 set iff the region is Inside, bits 1-3 equal to the
\* low three bits of the count, bit 4 set iff the clue is visible and bits 5-7
\* clear; so it is at most 0x1F, (Inside, 3, true) packs to 0x17 and
\* (Outside, 0, false) to 0x00.
C10_ByteLayout ==
    pc \in {"packed", "unpacked"} =>
        /\ packed \in 0..31
        /\ Bit(packed, 0) = (IF cell.region = "Inside" THEN 1 ELSE 0)
        /\ Bit(packed, 1) + 2 * Bit(packed, 2) + 4 * Bit(packed, 3)
               = cell.full_neighbor_count % 8
        /\ Bit(packed, 4) = (IF cell.clue_visible THEN 1 ELSE 0)
        /\ Bit(packed, 5) = 0 /\ Bit(packed, 6) = 0 /\ Bit(packed, 7) = 0
        /\ (cell = NewCell("Inside", 3, TRUE) => packed = 23)
        /\ (cell = NewCell("Outside", 0, FALSE) => packed = 0)

C10_Witness ==
    /\ pc = "packed"
    /\ cell = NewCell("Inside", 255, TRUE)
    /\ packed = 31

----------------------------------------------------------------------------
(* Properties of the enumerator, checked under SpecEnum *)

\* c is strictly before d in the lexicographic order of (q, r)
LexLess(c, d) == c.q < d.q \/ (c.q = d.q /\ c.r < d.r)

\* C2 (enumerator cardinality): for every radius 0..255, iter_coords yields
\* exactly 3R^2 + 3R + 1 coordinates.
C2_Cardinality ==
    pc = "enumerated" => (~iter.panic /\ Len(iter.seq) = HexCount(radius))

\* C3 (enumerator order and membership): iter_coords yields exactly the
\* coordinates (q, r) with -R <= q <= R and max(-R, -q-R) <= r <= min(R, -q+R),
\* each once, in strictly ascending lexicographic order of (q, r).
C3_OrderAndMembership ==
    pc = "enumerated" =>
        /\ ~iter.panic
        /\ \A i \in 1..(Len(iter.seq) - 1) : LexLess(iter.seq[i], iter.seq[i + 1])
        /\ {iter.seq[i] : i \in 1..Len(iter.seq)} = DocCoords(radius)

----------------------------------------------------------------------------
(* Properties of save_map followed by load_map, checked under SpecFile *)

\* the map holds exactly one cell for each coordinate of its radius
Complete == DOMAIN cells = DocCoords(radius)

\* some coordinate of the map's radius has no cell
LacksCell ==
    \E q \in -radius..radius :
        \E r \in Max(-radius, -q - radius)..Min(radius, -q + radius) :
            Coord(q, r) \notin DOMAIN cells

\* the number of header bytes of the format mode
HeaderLen == IF legacy THEN 1 ELSE 2

\* the number of cell bytes that reached the file
PayloadWritten == Len(file) - HeaderLen

\* the position of c among the coordinates of radius R in lexicographic order
DocIndex(R, c) == Cardinality({d \in DocCoords(R) : LexLess(d, c)}) + 1

\* C1 (file round trip): for every radius, every complete map whose cells have
\* full_neighbor_count <= 7 and both format modes, save_map followed by
\* load_map succeeds and returns the same radius and the same cells, and the
\* file is detected as the layout it was written in.
C1_RoundTrip ==
    (/\ pc = "loaded"
     /\ Complete
     /\ \A c \in DOMAIN cells : cells[c].full_neighbor_count <= 7)
    => /\ saved = "Ok"
       /\ loaded.kind = "Ok"
       /\ loaded.radius = radius
       /\ loaded.cells = cells
       /\ loaded.layout = (IF legacy THEN "legacy" ELSE "modern")

\* C6 (incomplete-map rejection): for every radius and both format modes,
\* save_map of a map that lacks a cell for a coordinate of its radius returns
\* an InvalidData error.
C6_IncompleteRejected ==
    (pc \in {"stored", "loaded"} /\ LacksCell) => saved = "InvalidData"

\* C7 as stated (partial file after a failed write is unusable): when save_map
\* fails on a missing coordinate, either no payload byte reached the file or
\* load_map of the file returns an error, in modern and in legacy mode.
C7_PartialFileUnusable ==
    (pc = "loaded" /\ saved = "InvalidData")
    => (PayloadWritten = 0 \/ loaded.kind \in {"UnexpectedEof", "InvalidData"})

\* C7 as amended: when save_map fails on a missing coordinate after writing
\* k >= 1 payload bytes, load_map of the file returns an error, except in
\* legacy mode when k - 1 is the cell count of the first payload byte taken as
\* a radius: then the file is loaded as a modern file of that radius.
C7_PartialFileUnusableOrAlias ==
    (pc = "loaded" /\ saved = "InvalidData" /\ PayloadWritten >= 1)
    => IF legacy /\ PayloadWritten - 1 = HexCount(file[2])
       THEN /\ loaded.kind = "Ok"
            /\ loaded.layout = "modern"
            /\ loaded.radius = file[2]
            /\ loaded.radius # radius
       ELSE loaded.kind \in {"UnexpectedEof", "InvalidData"}

C7_Witness ==
    /\ pc = "loaded"
    /\ saved = "InvalidData"
    /\ ~legacy
    /\ radius = 2
    /\ PayloadWritten = 18
    /\ loaded.kind = "InvalidData"

\* C8 (written layout): a successful save_map of a complete map of radius R
\* leaves exactly the header (0x00 and R, or R alone in legacy mode) followed
\* by N = 3R^2 + 3R + 1 bytes, the i-th being the packed cell of the i-th
\* coordinate in enumeration order.
C8_WrittenLayout ==
    (pc \in {"stored", "loaded"} /\ saved = "Ok" /\ Complete)
    => /\ Len(file) = HeaderLen + HexCount(radius)
       /\ file[HeaderLen] = radius
       /\ (~legacy => file[1] = 0)
       /\ \A c \in DOMAIN cells :
              file[HeaderLen + DocIndex(radius, c)] = pack_cell(cells[c])

----------------------------------------------------------------------------
(* Properties of load_map on given files, checked under SpecLoad *)

\* flag byte, radius byte and exactly the radius's cell count of payload bytes
StructurallyValidModern(buffer) ==
    Len(buffer) >= 2 /\ Len(buffer) - 2 = HexCount(buffer[2])

\* flag byte 0x00, radius byte and one payload byte less than the cell count
ModernOneShort(buffer) ==
    Len(buffer) >= 2 /\ buffer[1] = 0 /\ Len(buffer) - 2 = HexCount(buffer[2]) - 1

\* no flag byte f and radius byte R give a structurally valid modern file the
\* length of a legacy file of radius f
NoLengthCollision ==
    \A f \in U8 : \A R \in U8 : 2 + HexCount(R) # ExpectedSizeLegacy(f)

\* C4 as stated (detection ambiguity): some structurally valid modern file,
\* with flag byte f and radius byte R, has the total length 1 + 3f^2 + 3f + 1
\* and so is taken as a legacy file (the lengths are those load_map compares;
\* the statement is read in the state after a load).
C4_MisclassifiedModernExists ==
    pc = "loaded" =>
        \E f \in U8 : \E R \in U8 : 2 + HexCount(R) = ExpectedSizeLegacy(f)

\* C4 as amended: no structurally valid modern file is taken as legacy, for
\* any flag byte and any radius byte; load_map, where it returns a map, takes
\* its radius from byte 1 and its payload from offset 2.
C4_ValidModernNeverLegacy ==
    /\ NoLengthCollision
    /\ (pc = "loaded" /\ StructurallyValidModern(file))
       => /\ ~DetectedLegacy(file)
          /\ loaded.kind \in {"Ok", "panic"}
          /\ loaded.kind = "Ok"
             => /\ loaded.layout = "modern"
                /\ loaded.radius = file[2]
                /\ Coord(-loaded.radius, 0) \in DOMAIN loaded.cells
                   => loaded.cells[Coord(-loaded.radius, 0)] = unpack_cell(file[3])

C4_Witness ==
    /\ pc = "loaded"
    /\ StructurallyValidModern(file)
    /\ file[1] = 1
    /\ file[2] = 1
    /\ Len(file) = ExpectedSizeLegacy(file[1]) + 1
    /\ loaded.layout = "modern"

\* C5 as stated (size-mismatch detection): for every declared radius, a file
\* with flag 0x00 and a payload one byte short fails to load with InvalidData.
C5_OneShortRejected ==
    (pc = "loaded" /\ ModernOneShort(file)) => loaded.kind = "InvalidData"

\* C5 as amended: for every declared radius R >= 1 such a file fails to load
\* with InvalidData and yields no map; for R = 0 the file is the two bytes
\* 0x00 0x00, which load_map takes as a legacy file of radius 0 and loads.
C5_OneShortRejectedFromRadiusOne ==
    (pc = "loaded" /\ ModernOneShort(file))
    => IF file[2] >= 1
       THEN loaded.kind = "InvalidData" /\ loaded.cells = << >>
       ELSE /\ file = <<0, 0>>
            /\ loaded.kind = "Ok"
            /\ loaded.layout = "legacy"
            /\ loaded.radius = 0

C5_Witness ==
    /\ pc = "loaded"
    /\ ModernOneShort(file)
    /\ file[2] = 64
    /\ Len(file) = 12482
    /\ loaded.kind = "InvalidData"

\* C11 (empty or short source): load_map of the empty file, and of every file
\* of one byte, fails with UnexpectedEof and returns no map; and load_map
\* fails with UnexpectedEof only on a file of fewer than 2 bytes.
C11_ShortSource ==
    pc = "loaded" =>
        /\ Len(file) < 2
           => /\ loaded.kind = "UnexpectedEof"
              /\ loaded.cells = << >>
              /\ loaded.msg = (IF Len(file) = 0 THEN "File empty"
                               ELSE "File too short")
        /\ loaded.kind = "UnexpectedEof" => Len(file) < 2

C11_Witness ==
    /\ pc = "loaded"
    /\ file = <<0>>
    /\ loaded.kind = "UnexpectedEof"
    /\ loaded.msg = "File too short"

----------------------------------------------------------------------------
(* The command line: Args::normalize resolves the options into tasks *)

\* Option<T>: None is the empty sequence, Some(v) is <<v>>
None == << >>

Some(v) == <<v>>

is_some(o) == o # None

\* Option::or
or(o, other) == IF is_some(o) THEN o ELSE other

\* Option::unwrap_or
unwrap_or(o, default) == IF is_some(o) THEN o[1] ELSE default

GridSizes == {"Small", "Medium", "Large", "Huge"}

\* GridSize as u8: the discriminants of the #[repr(u8)] enum
GridSizeAsU8(s) ==
    CASE s = "Small" -> 2
      [] s = "Medium" -> 4
      [] s = "Large" -> 8
      [] s = "Huge" -> 11

GridSizeAll == <<"Small", "Medium", "Large", "Huge">>

Difficulties == {"Easy", "Medium", "Hard"}

DifficultyAll == <<"Easy", "Medium", "Hard">>

\* the size wins over the radius
final_radii_size_first(a) ==
    LET specific_size_or_radius == is_some(a.size) \/ is_some(a.radius)
    IN  IF specific_size_or_radius
        THEN IF is_some(a.size) THEN <<GridSizeAsU8(a.size[1])>>
             ELSE <<a.radius[1]>>
        ELSE [i \in 1..Len(GridSizeAll) |-> GridSizeAsU8(GridSizeAll[i])]

final_radii(a) ==
    LET specific_size_or_radius == is_some(a.size) \/ is_some(a.radius)
        specific_difficulty == is_some(a.difficulty)
        force_all == a.all \/ is_some(a.count_pos)
    IN  IF specific_size_or_radius
        THEN IF is_some(a.radius) THEN <<a.radius[1]>>
             ELSE <<GridSizeAsU8(a.size[1])>>
        ELSE IF force_all \/ ~specific_difficulty
        THEN [i \in 1..Len(GridSizeAll) |-> GridSizeAsU8(GridSizeAll[i])]
        ELSE [i \in 1..Len(GridSizeAll) |-> GridSizeAsU8(GridSizeAll[i])]

final_difficulties(a) ==
    IF is_some(a.difficulty) THEN <<a.difficulty[1]>> ELSE DifficultyAll

\* the inner loop: one task pushed per difficulty
RECURSIVE PushDifficulties(_, _, _)
PushDifficulties(tasks, r, ds) ==
    IF ds = << >> THEN tasks
    ELSE PushDifficulties(Append(tasks, <<r, Head(ds)>>), r, Tail(ds))

\* the outer loop over the radii
RECURSIVE PushRadii(_, _, _)
PushRadii(tasks, rs, ds) ==
    IF rs = << >> THEN tasks
    ELSE PushRadii(PushDifficulties(tasks, Head(rs), ds), Tail(rs), ds)

normalize(a) ==
    [ resolved |-> TRUE,
      output_dir |-> a.output,
      count_per_task |-> unwrap_or(or(a.count_pos, a.count), 1),
      tasks |-> PushRadii(<< >>, final_radii(a), final_difficulties(a)),
      load_path |-> a.load,
      display |-> a.display,
      format |-> a.format ]

\* the option values the command line is drawn from
RadiusArgs == {None, Some(0), Some(3), Some(255)}

SizeArgs == {None} \cup {Some(s) : s \in GridSizes}

DifficultyArgs == {None} \cup {Some(d) : d \in Difficulties}

CountArgs == {None, Some(0), Some(7)}

CountPosArgs == {None, Some(0), Some(5)}

LoadArgs == {None, Some("a.bin")}

ArgsInputs ==
    [ parsed : {TRUE},
      radius : RadiusArgs,
      size : SizeArgs,
      difficulty : DifficultyArgs,
      output : {"./maps"},
      all : BOOLEAN,
      count : CountArgs,
      count_pos : CountPosArgs,
      load : LoadArgs,
      display : BOOLEAN,
      format : {"BinaryFull"} ]

InitArgs ==
    /\ pc = "parsed"
    /\ build \in Builds
    /\ cell = NoCell
    /\ packed = -1
    /\ unpacked = NoCell
    /\ radius = 0
    /\ cells = << >>
    /\ legacy = FALSE
    /\ file = << >>
    /\ iter = [panic |-> FALSE, seq |-> << >>]
    /\ saved = "none"
    /\ loaded = NotLoaded
    /\ resaved = NotSaved
    /\ reloaded = NotLoaded
    /\ args \in ArgsInputs
    /\ config = NoConfig

Normalize ==
    /\ pc = "parsed"
    /\ config' = normalize(args)
    /\ pc' = "resolved"
    /\ UNCHANGED <<build, cell, packed, unpacked, radius, cells, legacy, file,
                   iter, saved, loaded, resaved, reloaded, args>>

NextArgs == Normalize

SpecArgs == InitArgs /\ [][NextArgs]_vars

\* the radius each named size stands for
SizeRadius == [Small |-> 2, Medium |-> 4, Large |-> 8, Huge |-> 11]

\* C12 (task resolution): count_per_task is the positional count if given,
\* else --count if given, else 1; tasks is the radius-major cartesian product
\* of radii x difficulties, where radii is [radius] if --radius is given,
\* else [the size's radius] if --size is given, else [2, 4, 8, 11], and
\* difficulties is [difficulty] if given, else [Easy, Medium, Hard]; no
\* filter gives 12 tasks, and --all or a positional count never widens a
\* size, radius or difficulty filter.
C12_TaskResolution ==
    pc = "resolved" =>
        LET radii == IF args.radius # << >> THEN <<args.radius[1]>>
                     ELSE IF args.size # << >> THEN <<SizeRadius[args.size[1]]>>
                     ELSE <<2, 4, 8, 11>>
            diffs == IF args.difficulty # << >> THEN <<args.difficulty[1]>>
                     ELSE <<"Easy", "Medium", "Hard">>
            nd == Len(diffs)
        IN  /\ config.count_per_task =
                 (IF args.count_pos # << >> THEN args.count_pos[1]
                  ELSE IF args.count # << >> THEN args.count[1]
                  ELSE 1)
            /\ Len(config.tasks) = Len(radii) * nd
            /\ \A i \in 1..Len(radii), j \in 1..nd :
                   config.tasks[(i - 1) * nd + j] = <<radii[i], diffs[j]>>
            /\ (args.radius = << >> /\ args.size = << >> /\ args.difficulty = << >>)
               => Len(config.tasks) = 12
            /\ \A k \in 1..Len(config.tasks) :
                   /\ args.radius # << >> => config.tasks[k][1] = args.radius[1]
                   /\ (args.radius = << >> /\ args.size # << >>)
                      => config.tasks[k][1] = SizeRadius[args.size[1]]
                   /\ args.difficulty # << >>
                      => config.tasks[k][2] = args.difficulty[1]

C12_Witness ==
    /\ pc = "resolved"
    /\ args.count_pos = <<5>>
    /\ args.count = <<7>>
    /\ args.all
    /\ args.radius = <<3>>
    /\ args.size = <<"Huge">>
    /\ args.difficulty = << >>
    /\ config.count_per_task = 5
    /\ config.tasks = << <<3, "Easy">>, <<3, "Medium">>, <<3, "Hard">> >>

----------------------------------------------------------------------------
(* Claims about the maps load_map returns *)

\* the offset of the first payload byte in the layout load_map detected
PayloadStart(m) == IF m.layout = "legacy" THEN 1 ELSE 2

\* C13 ("Missing cell data" is unreachable): once the size check has passed,
\* the payload is never exhausted before the coordinate sequence: a returned
\* map never holds more cells than the payload has bytes, and load_map never
\* returns the UnexpectedEof "Missing cell data" error.
C13_MissingCellDataUnreachable ==
    /\ pc \in {"loaded", "resaved", "reloaded"}
       => /\ loaded.msg # "Missing cell data"
          /\ loaded.kind = "Ok"
             => Cardinality(DOMAIN loaded.cells) <= Len(file) - PayloadStart(loaded)
    /\ pc = "reloaded"
       => /\ reloaded.msg # "Missing cell data"
          /\ reloaded.kind = "Ok"
             => Cardinality(DOMAIN reloaded.cells)
                    <= Len(resaved.file) - PayloadStart(reloaded)

C13_Witness ==
    /\ pc = "loaded"
    /\ Len(file) = 2 + HexCount(2)
    /\ file[2] = 2
    /\ loaded.kind = "Ok"
    /\ loaded.layout = "modern"
    /\ Cardinality(DOMAIN loaded.cells) = HexCount(2)

\* C14 (every loaded map is complete): whenever load_map returns Ok(map)
\* with R = map.radius, map.cells has exactly 3R^2+3R+1 entries, its key set
\* is the coordinate set of radius R, every cell has full_neighbor_count in
\* 0..7, and save_map of the loaded map does not fail with "map incomplete".
C14_LoadedMapComplete ==
    (pc \in {"loaded", "resaved", "reloaded"} /\ loaded.kind = "Ok")
    => /\ Cardinality(DOMAIN loaded.cells) = HexCount(loaded.radius)
       /\ DOMAIN loaded.cells = DocCoords(loaded.radius)
       /\ \A c \in DOMAIN loaded.cells :
              loaded.cells[c].full_neighbor_count \in 0..7
       /\ pc \in {"resaved", "reloaded"} => resaved.result # "InvalidData"

\* C15 (load-then-save canonicalises): for every file F that load_map
\* accepts, save_map of the loaded map in the detected layout (legacy iff
\* Len(F) = 1 + 3*F[0]^2 + 3*F[0] + 1) writes a file of the same length that
\* equals F except for a 0x00 flag byte in the modern layout and cleared
\* bits 5-7 in every payload byte, and loading that file returns the same map.
C15_LoadSaveCanonical ==
    pc = "reloaded"
    => /\ (loaded.layout = "legacy") <=> (Len(file) = 1 + HexCount(file[1]))
       /\ resaved.result = "Ok"
       /\ Len(resaved.file) = Len(file)
       /\ \A i \in 1..Len(file) :
              resaved.file[i] =
                  IF i > PayloadStart(loaded) THEN file[i] % 32
                  ELSE IF loaded.layout = "modern" /\ i = 1 THEN 0
                  ELSE file[i]
       /\ reloaded.kind = "Ok"
       /\ reloaded.radius = loaded.radius
       /\ reloaded.cells = loaded.cells

====
